---- MODULE Spec2Model ----
(***************************************************************************)
(* A model of the fast-erasure-shake-rng crate: the 1600-bit Keccak state  *)
(* of RngState, split into the rate area, the zeroized capacity area and   *)
(* the capacity area, and the public operations that drive it through the  *)
(* basic actions input, initial-output, intermediate-output and            *)
(* make-forward-secure.                                                    *)
(*                                                                         *)
(* The state is held as its 200 bytes in memory order, which is the order  *)
(* of every byte view the crate takes of the lane array.  keccak::f1600 is *)
(* an external crate; it is represented by a fixed bijection of the 200    *)
(* bytes that carries bytes of each area into the other areas.             *)
(***************************************************************************)
EXTENDS Integers, Sequences, FiniteSets, TLC

(***************************************************************************)
(* Program constants (src/src/lib.rs:230-237).                             *)
(***************************************************************************)
LANES == 25

BITS == 1600

CAPACITY_BITS == 512

RATE_BITS == BITS - 2 * CAPACITY_BITS

CAPACITY_BYTES == CAPACITY_BITS \div 8

RATE_BYTES == RATE_BITS \div 8

CAPACITY_LANES == CAPACITY_BYTES \div 8

RATE_LANES == RATE_BYTES \div 8

\* The bytes of a u64 lane: the divisor of CAPACITY_LANES and RATE_LANES.
LANE_BYTES == 8

\* const _: () = assert!(LANES == RATE_LANES + 2 * CAPACITY_LANES)
LanesAssertion == LANES = RATE_LANES + 2 * CAPACITY_LANES

\* A plausible slip: the string without its two trailing NUL bytes.
DIVERSIFIER_short ==
  << 70, 65, 83, 84, 32, 69, 82, 65, 83, 85, 82, 69, 32, 75, 69, 67,
     67, 65, 75, 32, 83, 80, 79, 78, 71, 69, 47, 68, 85, 80, 76, 69,
     88, 32, 80, 82, 78, 71, 0, 82, 85, 83, 84, 32, 67, 82, 65, 84,
     69, 32, 102, 97, 115, 116, 45, 101, 114, 97, 115, 117, 114, 101, 45, 115,
     104, 97, 107, 101, 45, 114, 110, 103, 32, 48, 46, 49, 46, 48 >>

\* The domain-separation string absorbed by new_unseeded (80 bytes).
DIVERSIFIER ==
  << 70, 65, 83, 84, 32, 69, 82, 65, 83, 85, 82, 69, 32, 75, 69, 67,
     67, 65, 75, 32, 83, 80, 79, 78, 71, 69, 47, 68, 85, 80, 76, 69,
     88, 32, 80, 82, 78, 71, 0, 82, 85, 83, 84, 32, 67, 82, 65, 84,
     69, 32, 102, 97, 115, 116, 45, 101, 114, 97, 115, 117, 114, 101, 45, 115,
     104, 97, 107, 101, 45, 114, 110, 103, 32, 48, 46, 49, 46, 48, 0, 0 >>

(***************************************************************************)
(* Bytes.                                                                  *)
(***************************************************************************)
Min(a, b) == IF a <= b THEN a ELSE b

Zeros(n) == [i \in 1..n |-> 0] \o <<>>

AllZero(s) == \A i \in 1..Len(s) : s[i] = 0

RECURSIVE BitXor(_, _)
BitXor(a, b) ==
  IF a = 0 THEN b
  ELSE IF b = 0 THEN a
  ELSE (((a % 2) + (b % 2)) % 2) + 2 * BitXor(a \div 2, b \div 2)

\* The exclusive or of two 4-bit values, tabulated.
NibbleXor == [a \in 0..15 |-> [b \in 0..15 |-> BitXor(a, b)]]

\* The u8 `^` operator.
Xor8(a, b) == 16 * NibbleXor[a \div 16][b \div 16] + NibbleXor[a % 16][b % 16]

\* for (b, s) in block.iter().zip(rate.iter_mut()) { *s ^= b }: zip stops at
\* the shorter of the two.
xor_zip(rate, block) ==
  [i \in 1..Len(rate) |-> IF i <= Len(block) THEN Xor8(rate[i], block[i]) ELSE rate[i]]

(***************************************************************************)
(* The permutation.  A round reads the state rotated by `r` byte           *)
(* positions and adds to every byte of the first half a substituted byte   *)
(* of the second half and a position constant; the second half is kept, so *)
(* a round is a bijection of the 200-byte strings.  The substitution is    *)
(* the byte bijection x -> x(2x+1) mod 256.  The rounds rotate by          *)
(* different amounts, so that bytes of each area reach the other areas.    *)
(***************************************************************************)
SBox(x) == (x * (2 * x + 1)) % 256

\* The round as a function of the state bytes: applied to s, it takes the
\* value of s once.
Round(k, r) ==
  [t \in Seq(0..255) |->
     LET n == Len(t)
         h == n \div 2
     IN [i \in 1..n |->
           LET j == ((i - 1 + r) % n) + 1
           IN IF j <= h
              THEN (t[j] + SBox((t[h + ((j * k) % h) + 1] + j) % 256)) % 256
              ELSE t[j]] \o <<>>]

MixRound(s, k, r) == Round(k, r)[s]

keccak_f1600(st) == MixRound(MixRound(MixRound(st, 7, 100), 11, 129), 13, 71)

(***************************************************************************)
(* InternalState (src/src/internal_state.rs).                              *)
(***************************************************************************)
\* InternalState::new
new == Zeros(LANES * LANE_BYTES)

\* self.state[..RATE_LANES] as bytes
get_rate_bytes(st) == SubSeq(st, 1, RATE_LANES * LANE_BYTES)

\* A write of `rate` through the view get_rate_bytes_mut gives.
get_rate_bytes_mut(st, rate) == rate \o SubSeq(st, RATE_LANES * LANE_BYTES + 1, Len(st))

\* self.state[..RATE_LANES + CAPACITY_LANES] as bytes
get_rate_zeroized_capacity_bytes(st) ==
  SubSeq(st, 1, (RATE_LANES + CAPACITY_LANES) * LANE_BYTES)

\* A plausible slip: the wipe starts one lane early, in the rate area.
zeroize_one_lane_early(st) ==
  [i \in 1..Len(st) |->
     IF (RATE_LANES - 1) * LANE_BYTES < i /\ i <= (RATE_LANES + CAPACITY_LANES) * LANE_BYTES
     THEN 0 ELSE st[i]]

\* A plausible slip: the wipe covers the capacity area instead.
zeroize_wrong_area(st) ==
  [i \in 1..Len(st) |->
     IF (RATE_LANES + CAPACITY_LANES) * LANE_BYTES < i THEN 0 ELSE st[i]]

\* self.state[RATE_LANES..RATE_LANES + CAPACITY_LANES].zeroize()
zeroize_for_forward_security(st) ==
  [i \in 1..Len(st) |->
     IF RATE_LANES * LANE_BYTES < i /\ i <= (RATE_LANES + CAPACITY_LANES) * LANE_BYTES
     THEN 0 ELSE st[i]]

\* The three areas of a state, as bytes.
RateArea(st) == SubSeq(st, 1, RATE_BYTES)

ZeroizedCapacityArea(st) == SubSeq(st, RATE_BYTES + 1, RATE_BYTES + CAPACITY_BYTES)

CapacityArea(st) == SubSeq(st, RATE_BYTES + CAPACITY_BYTES + 1, Len(st))

(***************************************************************************)
(* The driver as the basic actions see it: the state bytes, the record of  *)
(* the basic actions and permutation calls made so far in the current      *)
(* call, whether the call has panicked, and the state bytes the last       *)
(* permutation call was given.                                             *)
(***************************************************************************)
Ev(name, data) == [ev |-> name, data |-> data]

Count(lg, name) == Cardinality({i \in 1..Len(lg) : lg[i].ev = name})

\* RngState::apply_f -> InternalState::apply_f -> keccak_f1600
apply_f(self) ==
  [self EXCEPT !.state = keccak_f1600(@), !.log = Append(@, Ev("apply_f", <<>>)),
               !.perm_in = self.state]

\* A plausible slip: the length is asserted after the block has been XORed
\* into the rate area.
absorb_partial_assert_late(self, block) ==
  IF ~(Len(block) < RATE_BYTES)
  THEN [self EXCEPT
          !.state = get_rate_bytes_mut(@, xor_zip(get_rate_bytes(self.state), block)),
          !.panic = TRUE]
  ELSE LET r0 == get_rate_bytes(self.state)
           r1 == xor_zip(r0, block)
           r2 == [r1 EXCEPT ![Len(block) + 1] = Xor8(@, 128)]
           r3 == [r2 EXCEPT ![RATE_BYTES] = Xor8(@, 1)]
       IN apply_f([self EXCEPT !.state = get_rate_bytes_mut(@, r3),
                               !.log = Append(@, Ev("absorb_partial_block_padded", block))])

\* A plausible slip: the two padding bytes are stored with `=`, not `^=`.
absorb_partial_pad_assign(self, block) ==
  IF ~(Len(block) < RATE_BYTES)
  THEN [self EXCEPT !.panic = TRUE]
  ELSE LET r0 == get_rate_bytes(self.state)
           r1 == xor_zip(r0, block)
           r2 == [r1 EXCEPT ![Len(block) + 1] = 128]
           r3 == [r2 EXCEPT ![RATE_BYTES] = 1]
       IN apply_f([self EXCEPT !.state = get_rate_bytes_mut(@, r3),
                               !.log = Append(@, Ev("absorb_partial_block_padded", block))])

\* Basic action "input", last chunk: the padding is written into the state.
absorb_partial_block_padded(self, block) ==
  IF ~(Len(block) < RATE_BYTES)
  THEN [self EXCEPT !.panic = TRUE]
  ELSE LET r0 == get_rate_bytes(self.state)
           r1 == xor_zip(r0, block)
           r2 == [r1 EXCEPT ![Len(block) + 1] = Xor8(@, 128)]
           r3 == [r2 EXCEPT ![RATE_BYTES] = Xor8(@, 1)]
       IN apply_f([self EXCEPT !.state = get_rate_bytes_mut(@, r3),
                               !.log = Append(@, Ev("absorb_partial_block_padded", block))])

\* Basic action "input", a full chunk.
absorb_block(self, block) ==
  apply_f([self EXCEPT
             !.state = get_rate_bytes_mut(@, xor_zip(get_rate_bytes(self.state), block)),
             !.log = Append(@, Ev("absorb_block", block))])

\* A plausible slip: initial-output copies the rate area and applies no keccak-f.
initial_output_no_permute(self, dest) ==
  LET len == Min(Len(dest), RATE_BYTES)
      block == SubSeq(get_rate_bytes(self.state), 1, len)
  IN [self |-> [self EXCEPT !.log = Append(@, Ev("initial_output", block))],
      dest |-> block \o SubSeq(dest, len + 1, Len(dest))]

\* A plausible slip: keccak-f is applied before the rate area is copied out.
initial_output_permute_first(self, dest) ==
  LET len == Min(Len(dest), RATE_BYTES)
      s1 == apply_f(self)
      block == SubSeq(get_rate_bytes(s1.state), 1, len)
  IN [self |-> [s1 EXCEPT !.log = Append(@, Ev("initial_output", block))],
      dest |-> block \o SubSeq(dest, len + 1, Len(dest))]

\* Basic action "initial-output": the rate area is copied out, then keccak-f.
basic_initial_output(self, dest) ==
  LET len == Min(Len(dest), RATE_BYTES)
      block == SubSeq(get_rate_bytes(self.state), 1, len)
  IN [self |-> apply_f([self EXCEPT !.log = Append(@, Ev("initial_output", block))]),
      dest |-> block \o SubSeq(dest, len + 1, Len(dest))]

\* A plausible slip: intermediate-output copies and applies no keccak-f.
intermediate_output_no_permute(self, dest) ==
  LET len == Min(Len(dest), RATE_BYTES + CAPACITY_BYTES)
      block == SubSeq(get_rate_zeroized_capacity_bytes(self.state), 1, len)
  IN [self |-> [self EXCEPT !.log = Append(@, Ev("intermediate_output", block))],
      dest |-> block \o SubSeq(dest, len + 1, Len(dest))]

\* A plausible slip: the view copied from covers the whole state.
intermediate_output_whole_state(self, dest) ==
  LET len == Min(Len(dest), Len(self.state))
      block == SubSeq(self.state, 1, len)
  IN [self |-> apply_f([self EXCEPT !.log = Append(@, Ev("intermediate_output", block))]),
      dest |-> block \o SubSeq(dest, len + 1, Len(dest))]

\* Basic action "intermediate-output": the rate area and the zeroized
\* capacity area are copied out, then keccak-f.
basic_intermediate_output(self, dest) ==
  LET len == Min(Len(dest), RATE_BYTES + CAPACITY_BYTES)
      block == SubSeq(get_rate_zeroized_capacity_bytes(self.state), 1, len)
  IN [self |-> apply_f([self EXCEPT !.log = Append(@, Ev("intermediate_output", block))]),
      dest |-> block \o SubSeq(dest, len + 1, Len(dest))]

\* A plausible slip: the wipe starts at lane 0 and takes the rate area too.
make_forward_secure_from_start(self) ==
  [self EXCEPT !.state = [i \in 1..Len(@) |->
                            IF i <= RATE_BYTES + CAPACITY_BYTES THEN 0 ELSE @[i]],
               !.log = Append(@, Ev("make_forward_secure", <<>>))]

\* A plausible slip: the permutation is applied after the wipe as well.
make_forward_secure_and_permute(self) ==
  apply_f([self EXCEPT !.state = zeroize_for_forward_security(@),
                       !.log = Append(@, Ev("make_forward_secure", <<>>))])

\* Basic action "make-forward-secure".
basic_make_forward_secure(self) ==
  [self EXCEPT !.state = zeroize_for_forward_security(@),
               !.log = Append(@, Ev("make_forward_secure", <<>>))]

(***************************************************************************)
(* seed.  `cur` is the number of input bytes the chunks_exact iterator has *)
(* handed out.                                                             *)
(***************************************************************************)
\* blocks.next(): the next full chunk, if RATE_BYTES bytes are left.
chunks_exact_next(seed, cur) ==
  IF Len(seed) - cur >= RATE_BYTES THEN <<SubSeq(seed, cur + 1, cur + RATE_BYTES)>> ELSE <<>>

\* A plausible slip: the whole input is taken for what the chunks left over.
chunks_exact_whole(seed) == seed

\* blocks.remainder(): what is left after the last full chunk.
chunks_exact_remainder(seed) ==
  SubSeq(seed, (Len(seed) \div RATE_BYTES) * RATE_BYTES + 1, Len(seed))

\* A plausible slip: an empty remainder is taken to need no absorb.
seed_step_skip_empty(self, seed, cur) ==
  LET nxt == chunks_exact_next(seed, cur)
      rem == chunks_exact_remainder(seed)
  IN IF nxt # <<>>
     THEN [self |-> absorb_block(self, nxt[1]), cur |-> cur + RATE_BYTES, done |-> FALSE]
     ELSE [self |-> IF rem = <<>> THEN self ELSE absorb_partial_block_padded(self, rem),
           cur |-> cur, done |-> TRUE]

\* One iteration of the for loop, or the statement after it.
seed_step(self, seed, cur) ==
  LET nxt == chunks_exact_next(seed, cur)
  IN IF nxt # <<>>
     THEN [self |-> absorb_block(self, nxt[1]), cur |-> cur + RATE_BYTES, done |-> FALSE]
     ELSE [self |-> absorb_partial_block_padded(self, chunks_exact_remainder(seed)),
           cur |-> cur, done |-> TRUE]

RECURSIVE seed_from(_, _, _)
seed_from(self, seed, cur) ==
  LET r == seed_step(self, seed, cur)
  IN IF r.done THEN r.self ELSE seed_from(r.self, seed, r.cur)

\* RngState::seed as a function of the driver and the input.
seed(self, bytes) == seed_from(self, bytes, 0)

(***************************************************************************)
(* fill_random_bytes.  `cur` is the offset in the caller's buffer at which *)
(* the slice `dest` of the code starts.                                    *)
(***************************************************************************)
\* A plausible slip: the loop is entered only if more than a rate block is
\* left after the first 72 bytes.
fill_needs_more_than_block(len) == len - RATE_BYTES > RATE_BYTES

\* if dest.len() > RATE_BYTES
fill_needs_more(len) == len > RATE_BYTES

\* A plausible slip: `<` for `<=`.
fill_loop_break_strict(len) == len < RATE_BYTES + CAPACITY_BYTES

\* if dest.len() <= RATE_BYTES + CAPACITY_BYTES { break; }
fill_loop_break(len) == len <= RATE_BYTES + CAPACITY_BYTES

\* basic_initial_output(dest) and the test that follows it.
fill_begin(self, dest) ==
  LET r == basic_initial_output(self, dest)
      more == fill_needs_more(Len(dest))
  IN [self |-> r.self, dest |-> r.dest,
      cur |-> IF more THEN RATE_BYTES ELSE 0,
      next |-> IF more THEN "fill_loop" ELSE "fill_end"]

\* A plausible slip: the loop goes round without moving the destination on.
fill_loop_no_advance(self, dest, cur) ==
  LET d == SubSeq(dest, cur + 1, Len(dest))
      r == basic_intermediate_output(self, d)
      brk == fill_loop_break(Len(d))
  IN [self |-> r.self, dest |-> SubSeq(dest, 1, cur) \o r.dest,
      cur |-> cur,
      next |-> IF brk THEN "fill_end" ELSE "fill_loop"]

\* A plausible slip: the wipe is made in the loop, after every chunk.
fill_loop_wipe_each(self, dest, cur) ==
  LET d == SubSeq(dest, cur + 1, Len(dest))
      r == basic_intermediate_output(self, d)
      brk == fill_loop_break(Len(d))
  IN [self |-> basic_make_forward_secure(r.self), dest |-> SubSeq(dest, 1, cur) \o r.dest,
      cur |-> IF brk THEN cur ELSE cur + RATE_BYTES + CAPACITY_BYTES,
      next |-> IF brk THEN "fill_end" ELSE "fill_loop"]

\* One iteration of the loop.
fill_loop(self, dest, cur) ==
  LET d == SubSeq(dest, cur + 1, Len(dest))
      r == basic_intermediate_output(self, d)
      brk == fill_loop_break(Len(d))
  IN [self |-> r.self, dest |-> SubSeq(dest, 1, cur) \o r.dest,
      cur |-> IF brk THEN cur ELSE cur + RATE_BYTES + CAPACITY_BYTES,
      next |-> IF brk THEN "fill_end" ELSE "fill_loop"]

\* The statement after the loop.
fill_end(self) == basic_make_forward_secure(self)

(***************************************************************************)
(* seed_with_64.  The scratch buffer is a Zeroizing<[u64; 8]>: it is       *)
(* zeroized when it goes out of scope, on every way out of the function.   *)
(***************************************************************************)
\* zeroize::Zeroizing::new([0u64; 8])
Zeroizing_new == Zeros(8 * LANE_BYTES)

\* A plausible slip: the buffer is a plain [u64; 8], which drops as it is.
plain_array_drop(buf) == buf

\* Drop of Zeroizing<[u64; 8]>
Zeroizing_drop(buf) == Zeros(Len(buf))

\* A plausible slip: the buffer is absorbed before the producer's result is
\* looked at.
seed_with_64_absorb_first(self, buf, fr) ==
  [self |-> absorb_partial_block_padded(self, buf),
   result |-> IF fr[1] = "err" THEN fr ELSE <<"ok">>]

\* What follows the call of the producer: `?`, the absorb, Ok(()).
seed_with_64_after_f(self, buf, fr) ==
  IF fr[1] = "err"
  THEN [self |-> self, result |-> fr]
  ELSE [self |-> absorb_partial_block_padded(self, buf), result |-> <<"ok">>]

\* seed_with_64 as a function of the driver and of what the producer does:
\* the driver, the value returned and the memory of the buffer afterwards.
seed_with_64(self, o) ==
  LET r == seed_with_64_after_f(self, o.bytes, o.ret)
  IN [self |-> r.self, result |-> r.result, buffer |-> Zeroizing_drop(o.bytes)]

\* seed_with_getrandom: seed_with_64 with getrandom::getrandom as producer.
seed_with_getrandom(self, o) == seed_with_64(self, o)

(***************************************************************************)
(* fill_random_bytes and get_random_bytes as functions of the driver.      *)
(***************************************************************************)
\* The loop, from what basic_initial_output and the test after it, or an
\* iteration, left.
RECURSIVE fill_from(_)
fill_from(b) ==
  IF b.next = "fill_end" THEN b ELSE fill_from(fill_loop(b.self, b.dest, b.cur))

\* The statement after the loop, and the return.
fill_return(m) == [self |-> fill_end(m.self), dest |-> m.dest]

fill_random_bytes(self, dest) == fill_return(fill_from(fill_begin(self, dest)))

\* let mut out = [0; N]; self.fill_random_bytes(&mut out); out
get_random_bytes(self, n) ==
  LET r == fill_random_bytes(self, Zeros(n))
  IN [self |-> r.self, out |-> r.dest]

(***************************************************************************)
(* Constructors.  A driver that has just been made has an empty record.    *)
(***************************************************************************)
\* Self { state: InternalState::new() }
RngState_new == [state |-> new, log |-> <<>>, panic |-> FALSE, perm_in |-> new]

\* RngState::new_unseeded
new_unseeded == seed(RngState_new, DIVERSIFIER)

\* A plausible slip: the result of seed_with_getrandom is dropped and the
\* driver is returned whatever the OS RNG did.
new_from_getrandom_ignore_error(o) ==
  LET r == seed_with_getrandom(new_unseeded, o)
  IN [self |-> r.self, ok |-> TRUE, result |-> <<"ok">>, buffer |-> r.buffer]

\* RngState::new_from_getrandom: `self` is the local driver when the function
\* is left, and `ok` tells whether it is handed to the caller.
new_from_getrandom(o) ==
  LET r == seed_with_getrandom(new_unseeded, o)
  IN [self |-> r.self, ok |-> r.result[1] # "err", result |-> r.result,
      buffer |-> r.buffer]

\* A plausible slip: no padding, the seed is absorbed as a full block would be
\* (zip stops at the 64 bytes of the seed).
from_seed_unpadded(bytes) == absorb_block(new_unseeded, bytes)

\* SeedableRng::from_seed
from_seed(bytes) == absorb_partial_block_padded(new_unseeded, bytes)

(***************************************************************************)
(* RngCore.  A u64 is held as its 8 bytes in order of significance, least  *)
(* significant first; the byte order of the host is an input.              *)
(***************************************************************************)
Endians == {"little", "big"}

\* u64::from_ne_bytes
from_ne_bytes(buf, e) ==
  IF e = "little" THEN buf ELSE [i \in 1..Len(buf) |-> buf[Len(buf) + 1 - i]] \o <<>>

\* u64::to_ne_bytes
to_ne_bytes(v, e) ==
  IF e = "little" THEN v ELSE [i \in 1..Len(v) |-> v[Len(v) + 1 - i]] \o <<>>

\* SeedableRng::seed_from_u64
seed_from_u64(v, e) == absorb_partial_block_padded(new_unseeded, to_ne_bytes(v, e))

\* A plausible slip: the high half of the u64 is taken.
high_u32(v) == SubSeq(v, 5, 8)

\* `as u32`: truncation to the 32 least significant bits.
as_u32(v) == SubSeq(v, 1, 4)

\* RngCore::next_u64
next_u64(self, e) ==
  LET r == get_random_bytes(self, 8)
  IN [self |-> r.self, value |-> from_ne_bytes(r.out, e), buf |-> r.out]

\* RngCore::next_u32
next_u32(self, e) ==
  LET r == next_u64(self, e)
  IN [self |-> r.self, value |-> as_u32(r.value), buf |-> r.buf]

(***************************************************************************)
(* Drop.  Neither RngState nor InternalState implements Drop or Zeroize:   *)
(* releasing the driver leaves the bytes of its state in memory as they    *)
(* are.                                                                    *)
(***************************************************************************)
drop_RngState(st) == st

(***************************************************************************)
(* Bounds and inputs.                                                      *)
(***************************************************************************)
\* The number of public calls made on a driver after its construction.
MaxCalls == 2

\* Input lengths around the block boundaries of seed.
SeedLens == {0, 11, 71, 72, 73, 144}

\* Destination lengths around the chunk boundaries of fill_random_bytes.
FillLens == {0, 15, 32, 72, 73, 208, 209, 345}

\* First bytes of the byte patterns used as input data.
PatternBases == {65, 200}

Pattern(n, b) == [i \in 1..n |-> (b + 3 * i) % 256] \o <<>>

SeedInputs == {Pattern(n, 65) : n \in SeedLens} \cup {Pattern(RATE_BYTES, 200)}

\* The 64-byte seeds given to from_seed.
Seeds == {Pattern(CAPACITY_BYTES, b) : b \in PatternBases}

\* The u64 given to seed_from_u64, as its bytes in order of significance.
U64Inputs == {Pattern(LANE_BYTES, 65)}

\* What a caller's buffer may hold before the call.
DestInits == {170}

\* The producer of seed_with_64: the value it returns and the bytes it has
\* written to the buffer when it returns (on an error, possibly a part).
ProducerOutcomes ==
  {[ret |-> <<"ok">>, bytes |-> Pattern(8 * LANE_BYTES, b)] : b \in PatternBases}
  \cup {[ret |-> <<"err", "E1">>, bytes |-> Zeros(8 * LANE_BYTES)],
        [ret |-> <<"err", "E2">>, bytes |-> Pattern(32, 65) \o Zeros(8 * LANE_BYTES - 32)]}

(***************************************************************************)
(* The state machine.                                                      *)
(***************************************************************************)
VARIABLES
  state,    \* the 200 bytes of RngState.state (also after the driver is released)
  pc,       \* "none", "idle", "seed", "fill_loop", "fill_end", "s64_f", "s64_ret",
            \* "dropped", "panicked", "failed"
  op,       \* the public operation in progress, or the last one that returned
  log,      \* basic actions and permutation calls of that operation, in order
  pre,      \* the state when that operation was called
  arg,      \* the input bytes of seed / the bytes the producer wrote
  dest,     \* the caller's buffer of fill_random_bytes
  cur,      \* cursor of the loop in progress
  buffer,   \* the memory of the scratch buffer of seed_with_64
  fret,     \* what the producer returned
  result,   \* what the last operation returned
  calls,    \* public calls made since construction
  totals,   \* fill_random_bytes calls returned, and the wipes they made
  seeded,   \* whether the caller has seeded the driver (the code keeps no such flag)
  perm_in   \* the state bytes the last permutation call was given

vars ==
  <<state, pc, op, log, pre, arg, dest, cur, buffer, fret, result, calls, totals, seeded,
    perm_in>>

Self == [state |-> state, log |-> log, panic |-> FALSE, perm_in |-> perm_in]

Init ==
  /\ state = new
  /\ pc = "none"
  /\ op = "none"
  /\ log = <<>>
  /\ pre = new
  /\ arg = <<>>
  /\ dest = <<>>
  /\ cur = 0
  /\ buffer = <<>>
  /\ fret = <<"none">>
  /\ result = <<"none">>
  /\ calls = 0
  /\ totals = [fills |-> 0, wipes |-> 0]
  /\ seeded = FALSE
  /\ perm_in = new

\* new_unseeded: InternalState::new(), then the call of seed(DIVERSIFIER).
NewUnseeded ==
  /\ pc = "none"
  /\ state' = new
  /\ pre' = new
  /\ pc' = "seed"
  /\ op' = "new_unseeded"
  /\ arg' = DIVERSIFIER
  /\ cur' = 0
  /\ log' = <<>>
  /\ UNCHANGED <<dest, buffer, fret, result, calls, totals, seeded, perm_in>>

\* seed(bytes) is called.
SeedCall(bytes) ==
  /\ pc = "idle"
  /\ calls < MaxCalls
  /\ pc' = "seed"
  /\ op' = "seed"
  /\ arg' = bytes
  /\ cur' = 0
  /\ log' = <<>>
  /\ pre' = state
  /\ result' = <<"none">>
  /\ calls' = calls + 1
  /\ UNCHANGED <<state, dest, buffer, fret, totals, seeded, perm_in>>

\* seed: one iteration of the loop, or the padded absorb and the return.
SeedStep ==
  /\ pc = "seed"
  /\ LET r == seed_step(Self, arg, cur)
     IN /\ state' = r.self.state
        /\ log' = r.self.log
        /\ perm_in' = r.self.perm_in
        /\ cur' = r.cur
        /\ pc' = IF r.self.panic THEN "panicked" ELSE IF r.done THEN "idle" ELSE "seed"
        /\ result' = IF r.done /\ ~r.self.panic /\ op = "seed" THEN <<"ok">> ELSE result
        /\ seeded' = (seeded \/ (r.done /\ ~r.self.panic /\ op = "seed"))
  /\ UNCHANGED <<op, pre, arg, dest, buffer, fret, calls, totals>>

\* fill_random_bytes(dest) is called with a buffer of n bytes: basic_initial_output.
FillCall(n, b) ==
  /\ pc = "idle"
  /\ calls < MaxCalls
  /\ LET r == fill_begin([Self EXCEPT !.log = <<>>], [i \in 1..n |-> b])
     IN /\ state' = r.self.state
        /\ log' = r.self.log
        /\ perm_in' = r.self.perm_in
        /\ dest' = r.dest
        /\ cur' = r.cur
        /\ pc' = r.next
  /\ op' = "fill_random_bytes"
  /\ pre' = state
  /\ result' = <<"none">>
  /\ calls' = calls + 1
  /\ UNCHANGED <<arg, buffer, fret, totals, seeded>>

\* fill_random_bytes: one iteration of the loop.
FillLoop ==
  /\ pc = "fill_loop"
  /\ LET r == fill_loop(Self, dest, cur)
     IN /\ state' = r.self.state
        /\ log' = r.self.log
        /\ perm_in' = r.self.perm_in
        /\ dest' = r.dest
        /\ cur' = r.cur
        /\ pc' = r.next
  /\ UNCHANGED <<op, pre, arg, buffer, fret, result, calls, totals, seeded>>

\* fill_random_bytes: basic_make_forward_secure and the return.
FillEnd ==
  /\ pc = "fill_end"
  /\ LET s == fill_end(Self)
     IN /\ state' = s.state
        /\ log' = s.log
        /\ perm_in' = s.perm_in
        /\ totals' = [fills |-> totals.fills + 1,
                      wipes |-> totals.wipes + Count(s.log, "make_forward_secure")]
  /\ pc' = "idle"
  /\ result' = <<"ok">>
  /\ UNCHANGED <<op, pre, arg, dest, cur, buffer, fret, calls, seeded>>

\* seed_with_64(f) is called: the scratch buffer is made and f is called on it.
SeedWith64Call ==
  /\ pc = "idle"
  /\ calls < MaxCalls
  /\ buffer' = Zeroizing_new
  /\ pc' = "s64_f"
  /\ op' = "seed_with_64"
  /\ log' = <<>>
  /\ pre' = state
  /\ arg' = <<>>
  /\ fret' = <<"none">>
  /\ result' = <<"none">>
  /\ calls' = calls + 1
  /\ UNCHANGED <<state, dest, cur, totals, seeded, perm_in>>

\* The producer returns: it has written to the buffer, and succeeded or failed.
ProducerReturn(o) ==
  /\ pc = "s64_f"
  /\ buffer' = o.bytes
  /\ arg' = o.bytes
  /\ fret' = o.ret
  /\ pc' = "s64_ret"
  /\ UNCHANGED <<state, op, log, pre, dest, cur, result, calls, totals, seeded, perm_in>>

\* seed_with_64: the rest of the function, and the drop of the buffer.
SeedWith64Return ==
  /\ pc = "s64_ret"
  /\ LET r == seed_with_64_after_f(Self, buffer, fret)
     IN /\ state' = r.self.state
        /\ log' = r.self.log
        /\ perm_in' = r.self.perm_in
        /\ result' = r.result
        /\ pc' = IF r.self.panic THEN "panicked" ELSE "idle"
        /\ seeded' = (seeded \/ (r.result = <<"ok">> /\ ~r.self.panic))
  /\ buffer' = Zeroizing_drop(buffer)
  /\ UNCHANGED <<op, pre, arg, dest, cur, fret, calls, totals>>

\* new_from_getrandom(): the OS RNG succeeds or fails.  On a failure the
\* local driver is dropped and the caller gets the error alone.
NewFromGetrandom(o) ==
  /\ pc = "none"
  /\ LET r == new_from_getrandom(o)
     IN /\ state' = IF r.ok THEN r.self.state ELSE drop_RngState(r.self.state)
        /\ log' = r.self.log
        /\ perm_in' = r.self.perm_in
        /\ result' = r.result
        /\ buffer' = r.buffer
        /\ pc' = IF r.self.panic THEN "panicked" ELSE IF r.ok THEN "idle" ELSE "failed"
        /\ seeded' = (r.ok /\ ~r.self.panic)
  /\ op' = "new_from_getrandom"
  /\ pre' = new
  /\ arg' = o.bytes
  /\ fret' = o.ret
  /\ calls' = 1
  /\ UNCHANGED <<dest, cur, totals>>

\* SeedableRng::from_seed(seed) with a 64-byte seed.
FromSeed(bytes) ==
  /\ pc = "none"
  /\ LET s == from_seed(bytes)
     IN /\ state' = s.state
        /\ log' = s.log
        /\ perm_in' = s.perm_in
        /\ pc' = IF s.panic THEN "panicked" ELSE "idle"
        /\ seeded' = ~s.panic
  /\ op' = "from_seed"
  /\ pre' = new
  /\ arg' = bytes
  /\ result' = <<"ok">>
  /\ calls' = 1
  /\ UNCHANGED <<dest, cur, buffer, fret, totals>>

\* SeedableRng::seed_from_u64(v) on a host of byte order e.
SeedFromU64(v, e) ==
  /\ pc = "none"
  /\ LET s == seed_from_u64(v, e)
     IN /\ state' = s.state
        /\ log' = s.log
        /\ perm_in' = s.perm_in
        /\ pc' = IF s.panic THEN "panicked" ELSE "idle"
        /\ seeded' = ~s.panic
  /\ op' = "seed_from_u64"
  /\ pre' = new
  /\ arg' = to_ne_bytes(v, e)
  /\ result' = <<"ok">>
  /\ calls' = 1
  /\ UNCHANGED <<dest, cur, buffer, fret, totals>>

\* next_u64() on a host of byte order e.
NextU64(e) ==
  /\ pc = "idle"
  /\ calls < MaxCalls
  /\ LET r == next_u64([Self EXCEPT !.log = <<>>], e)
     IN /\ state' = r.self.state
        /\ log' = r.self.log
        /\ perm_in' = r.self.perm_in
        /\ dest' = r.buf
        /\ result' = <<"ok", e, r.value>>
        /\ totals' = [fills |-> totals.fills + 1,
                      wipes |-> totals.wipes + Count(r.self.log, "make_forward_secure")]
  /\ op' = "next_u64"
  /\ pre' = state
  /\ calls' = calls + 1
  /\ UNCHANGED <<pc, arg, cur, buffer, fret, seeded>>

\* next_u32() on a host of byte order e.
NextU32(e) ==
  /\ pc = "idle"
  /\ calls < MaxCalls
  /\ LET r == next_u32([Self EXCEPT !.log = <<>>], e)
     IN /\ state' = r.self.state
        /\ log' = r.self.log
        /\ perm_in' = r.self.perm_in
        /\ dest' = r.buf
        /\ result' = <<"ok", e, r.value>>
        /\ totals' = [fills |-> totals.fills + 1,
                      wipes |-> totals.wipes + Count(r.self.log, "make_forward_secure")]
  /\ op' = "next_u32"
  /\ pre' = state
  /\ calls' = calls + 1
  /\ UNCHANGED <<pc, arg, cur, buffer, fret, seeded>>

\* The driver goes out of scope.
Drop ==
  /\ pc = "idle"
  /\ state' = drop_RngState(state)
  /\ pc' = "dropped"
  /\ op' = "drop"
  /\ pre' = state
  /\ log' = <<>>
  /\ UNCHANGED <<arg, dest, cur, buffer, fret, result, calls, totals, seeded, perm_in>>

Next ==
  \/ NewUnseeded
  \/ \E bytes \in SeedInputs : SeedCall(bytes)
  \/ SeedStep
  \/ \E n \in FillLens, b \in DestInits : FillCall(n, b)
  \/ FillLoop
  \/ FillEnd
  \/ SeedWith64Call
  \/ \E o \in ProducerOutcomes : ProducerReturn(o)
  \/ SeedWith64Return
  \/ \E o \in ProducerOutcomes : NewFromGetrandom(o)
  \/ \E bytes \in Seeds : FromSeed(bytes)
  \/ \E v \in U64Inputs, e \in Endians : SeedFromU64(v, e)
  \/ \E e \in Endians : NextU64(e)
  \/ \E e \in Endians : NextU32(e)
  \/ Drop

Spec == Init /\ [][Next]_vars

\* A call that has been made runs on: the code of seed and fill_random_bytes
\* is sequential and waits for nothing.  The caller need not call again.
FairSpec ==
  Spec /\ WF_vars(SeedStep) /\ WF_vars(FillLoop) /\ WF_vars(FillEnd)

(***************************************************************************)
(* absorb_partial_block_padded is private: no public operation hands it a  *)
(* block of 72 bytes or more.  SpecAbsorb calls it directly, on drivers as *)
(* the constructors make them, with blocks on both sides of the bound.     *)
(***************************************************************************)
\* Block lengths on both sides of RATE_BYTES.
AbsorbLens == {0, 8, 11, 64, 71, 72, 73, 144, 200}

AbsorbBlocks == {Pattern(n, 65) : n \in AbsorbLens}

\* The states the calls start from.
AbsorbStarts == {new, new_unseeded.state, from_seed(Pattern(CAPACITY_BYTES, 65)).state}

InitAbsorb ==
  /\ state \in AbsorbStarts
  /\ pc = "idle"
  /\ op = "none"
  /\ log = <<>>
  /\ pre = state
  /\ arg = <<>>
  /\ dest = <<>>
  /\ cur = 0
  /\ buffer = <<>>
  /\ fret = <<"none">>
  /\ result = <<"none">>
  /\ calls = 0
  /\ totals = [fills |-> 0, wipes |-> 0]
  /\ seeded = FALSE
  /\ perm_in = state

\* self.absorb_partial_block_padded(block)
AbsorbCall(block) ==
  /\ pc = "idle"
  /\ calls < MaxCalls
  /\ LET s == absorb_partial_block_padded([Self EXCEPT !.log = <<>>], block)
     IN /\ state' = s.state
        /\ log' = s.log
        /\ perm_in' = s.perm_in
        /\ pc' = IF s.panic THEN "panicked" ELSE "idle"
        /\ result' = IF s.panic THEN <<"panic">> ELSE <<"ok">>
  /\ op' = "absorb_partial_block_padded"
  /\ pre' = state
  /\ arg' = block
  /\ calls' = calls + 1
  /\ UNCHANGED <<dest, cur, buffer, fret, totals, seeded>>

NextAbsorb == \E block \in AbsorbBlocks : AbsorbCall(block)

SpecAbsorb == InitAbsorb /\ [][NextAbsorb]_vars

(***************************************************************************)
(* Properties.                                                             *)
(***************************************************************************)
Returned(name) == pc = "idle" /\ op = name

CeilDiv(a, b) == (a + b - 1) \div b

\* C1: when fill_random_bytes has returned, for every destination length
\* (0 included) and whatever calls came before, the 64 bytes of the zeroized
\* capacity area (state bytes 72..136) are all zero.
C1_WipeAfterFill ==
  Returned("fill_random_bytes") =>
    /\ Len(ZeroizedCapacityArea(state)) = 64
    /\ \A i \in 73..136 : state[i] = 0

\* A fill of an empty destination has returned on a driver whose zeroized
\* capacity area held nonzero bytes when the call was made.
C1_Witness ==
  /\ Returned("fill_random_bytes")
  /\ Len(dest) = 0
  /\ ~AllZero(ZeroizedCapacityArea(pre))
  /\ AllZero(ZeroizedCapacityArea(state))

\* C2: when the driver has been released, in whatever state it was, all 200
\* bytes of its Keccak state have been overwritten with zeros.
C2_DropWipesState == pc = "dropped" => (Len(state) = 200 /\ AllZero(state))

\* C3: when seed has returned, the last basic action of the call was
\* make-forward-secure, which left the zeroized capacity area all zero.
C3_SeedEndsWithWipe ==
  Returned("seed") =>
    /\ Len(log) > 0
    /\ log[Len(log)].ev = "make_forward_secure"
    /\ AllZero(ZeroizedCapacityArea(state))

\* The 10*1 padding that completes x to a 72-byte boundary, as bytes.
Padding(x) ==
  LET n == 72 - (Len(x) % 72)
  IN IF n = 1 THEN <<129>> ELSE <<128>> \o Zeros(n - 2) \o <<1>>

\* C4: seeding is not a concatenation: from a state the driver can be in
\* there are inputs x and y for which seed(x) followed by seed(y) leaves a
\* state other than the one seed(x || padding(x) || y) leaves.
C4_SeedNotConcatenation ==
  pc = "idle" =>
    \E x \in SeedInputs, y \in SeedInputs :
      seed(seed(Self, x), y).state # seed(Self, x \o Padding(x) \o y).state

\* C5: when the producer passed to seed_with_64 has returned an error,
\* seed_with_64 returns that error, has made no absorb and no permutation
\* call, and every byte of the state is as it was when the call was made.
C5_ProducerErrorLeavesDriver ==
  (Returned("seed_with_64") /\ fret[1] = "err") =>
    /\ result = fret
    /\ log = <<>>
    /\ state = pre

\* seed_with_64 has returned the error of a producer that had written
\* nonzero bytes to the buffer before it failed.
C5_Witness ==
  /\ Returned("seed_with_64")
  /\ fret = <<"err", "E2">>
  /\ result = <<"err", "E2">>
  /\ ~AllZero(arg)

\* C6: when seed_with_64 has returned, with Ok or with the producer's
\* error, the 64 bytes of its scratch buffer are all zero.
C6_ScratchScrubbed ==
  Returned("seed_with_64") => (Len(buffer) = 64 /\ AllZero(buffer))

\* seed_with_64 has returned Ok after absorbing the nonzero bytes the
\* producer wrote, and the buffer that held them is zero.
C6_Witness ==
  /\ Returned("seed_with_64")
  /\ result = <<"ok">>
  /\ ~AllZero(arg)
  /\ log[1] = Ev("absorb_partial_block_padded", arg)
  /\ AllZero(buffer)

\* C7: for an input of n bytes seed makes floor(n/72) full-block absorbs, of
\* the successive 72-byte blocks in order, then one padded absorb of the
\* last n mod 72 bytes (also when that tail is empty), each followed by one
\* permutation call: floor(n/72) + 1 permutation calls, and nothing else.
C7_SeedSchedule ==
  Returned("seed") =>
    LET n == Len(arg)
        k == n \div 72
    IN /\ Len(log) = 2 * (k + 1)
       /\ \A i \in 1..k :
            /\ log[2 * i - 1] = Ev("absorb_block", SubSeq(arg, 72 * (i - 1) + 1, 72 * i))
            /\ log[2 * i].ev = "apply_f"
       /\ log[2 * k + 1] = Ev("absorb_partial_block_padded", SubSeq(arg, 72 * k + 1, n))
       /\ Len(log[2 * k + 1].data) = n % 72
       /\ log[2 * k + 2].ev = "apply_f"
       /\ Count(log, "apply_f") = k + 1

\* seed has returned for an input of two full blocks: two full-block absorbs
\* and a padded absorb of an empty tail.
C7_Witness ==
  /\ Returned("seed")
  /\ Len(arg) = 144
  /\ Count(log, "absorb_block") = 2
  /\ log[5] = Ev("absorb_partial_block_padded", <<>>)
  /\ Count(log, "apply_f") = 3

\* C8: a fill of L bytes starts with one initial-output, which is the only
\* one; it is followed by no intermediate-output for L <= 72 and by
\* ceil((L - 72) / 136) of them for L > 72, the i-th of which copies the next
\* min(136, bytes left) bytes of the destination.
C8_FillSchedule ==
  Returned("fill_random_bytes") =>
    LET L == Len(dest)
        m == IF L <= 72 THEN 0 ELSE CeilDiv(L - 72, 136)
    IN /\ log[1].ev = "initial_output"
       /\ Len(log[1].data) = Min(L, 72)
       /\ Count(log, "initial_output") = 1
       /\ Count(log, "intermediate_output") = m
       /\ (72 < L /\ L <= 208) => m = 1
       /\ \A i \in 1..m :
            /\ log[2 * i + 1].ev = "intermediate_output"
            /\ Len(log[2 * i + 1].data) = Min(136, L - 72 - 136 * (i - 1))

\* A fill of 209 bytes has returned: one byte more than one
\* intermediate-output gives, so two were made.
C8_Witness ==
  /\ Returned("fill_random_bytes")
  /\ Len(dest) = 209
  /\ Count(log, "intermediate_output") = 2
  /\ Len(log[5].data) = 1

\* C9 as stated: a fill of 208 bytes on a seeded driver makes one
\* initial-output, one intermediate-output, one wipe and 3 permutation calls.
C9_Fill208ThreePermutations ==
  (Returned("fill_random_bytes") /\ seeded /\ Len(dest) = 208) =>
    /\ Count(log, "initial_output") = 1
    /\ Count(log, "intermediate_output") = 1
    /\ Count(log, "make_forward_secure") = 1
    /\ Count(log, "apply_f") = 3

\* C9 as amended: a fill of 208 bytes on a seeded driver makes one
\* initial-output, one intermediate-output, one wipe and 2 permutation
\* calls, one for each of the two output actions and none for the wipe.
C9_Fill208TwoPermutations ==
  (Returned("fill_random_bytes") /\ seeded /\ Len(dest) = 208) =>
    /\ Count(log, "initial_output") = 1
    /\ Count(log, "intermediate_output") = 1
    /\ Count(log, "make_forward_secure") = 1
    /\ Count(log, "apply_f") = 2
    /\ Len(log) = 5

\* A fill of 208 bytes has returned on a seeded driver.
C9_Witness ==
  /\ Returned("fill_random_bytes")
  /\ seeded
  /\ Len(dest) = 208
  /\ Len(log[1].data) + Len(log[3].data) = 208

IsOutput(e) == e.ev \in {"initial_output", "intermediate_output"}

\* C10: in a call of fill_random_bytes no wipe is made while chunks are
\* still to be copied; when the call returns exactly one wipe has been made,
\* it is the last thing the call did, and it follows the copy of the last
\* chunk and the permutation call of that chunk.  The fills that have
\* returned have therefore made as many wipes as there were fills.
C10_WipeOnceAtEnd ==
  /\ pc \in {"fill_loop", "fill_end"} => Count(log, "make_forward_secure") = 0
  /\ Returned("fill_random_bytes") =>
       LET n == Len(log)
       IN /\ n >= 3
          /\ Count(log, "make_forward_secure") = 1
          /\ log[n].ev = "make_forward_secure"
          /\ log[n - 1].ev = "apply_f"
          /\ IsOutput(log[n - 2])
  /\ totals.wipes = totals.fills

\* A second fill has returned, one of four chunks, and two wipes were made.
C10_Witness ==
  /\ Returned("fill_random_bytes")
  /\ Len(dest) = 345
  /\ totals.fills = 2
  /\ totals.wipes = 2
  /\ Count(log, "apply_f") = 4

\* The states S(0) = st, S(1), ..., S(n): S(k) is st after k permutations.
RECURSIVE StatesAfter(_, _)
StatesAfter(st, n) ==
  IF n = 0 THEN <<st>>
  ELSE LET p == StatesAfter(st, n - 1) IN Append(p, keccak_f1600(p[Len(p)]))

\* The bytes the output actions of a record wrote, in order.
RECURSIVE OutputData(_)
OutputData(lg) ==
  IF lg = <<>> THEN <<>>
  ELSE (IF IsOutput(lg[1]) THEN lg[1].data ELSE <<>>) \o OutputData(Tail(lg))

\* C11: when fill_random_bytes has returned, the chunks its output actions
\* wrote, laid end to end, are the destination (every byte written once);
\* the first min(L, 72) bytes are the rate bytes of the state at call entry,
\* and byte 72 + 136k + j of the destination is byte j of the state after
\* k + 1 permutations, with j < 136.
C11_FillBytes ==
  Returned("fill_random_bytes") =>
    LET L == Len(dest)
        n == IF L > RATE_BYTES THEN CeilDiv(L - RATE_BYTES, RATE_BYTES + CAPACITY_BYTES) ELSE 0
        S == StatesAfter(pre, n)
    IN /\ OutputData(log) = dest
       /\ \A i \in 1..Min(L, RATE_BYTES) : dest[i] = pre[i]
       /\ \A i \in (RATE_BYTES + 1)..L :
            LET k == (i - RATE_BYTES - 1) \div (RATE_BYTES + CAPACITY_BYTES)
                j == (i - RATE_BYTES - 1) % (RATE_BYTES + CAPACITY_BYTES)
            IN dest[i] = S[k + 2][j + 1]

\* A 345-byte request on a seeded driver has returned: 72 bytes, two chunks
\* of 136 and one byte of a third chunk.
C11_Witness ==
  /\ Returned("fill_random_bytes")
  /\ seeded
  /\ Len(dest) = 345
  /\ dest[345] = keccak_f1600(keccak_f1600(keccak_f1600(pre)))[1]

\* The events the step in progress adds to the record.
NewEvents ==
  IF pc \in {"seed", "fill_loop", "fill_end", "s64_ret"}
  THEN SubSeq(log', Len(log) + 1, Len(log'))
  ELSE log'

\* C12: in every step of an operation on a driver, the bytes copied out are
\* the first at most 136 bytes of the state (at most 72 for initial-output),
\* so none of bytes 136..200; until the permutation of the step the capacity
\* area is as before the step, an absorb having changed bytes 0..72 only and
\* an output copy nothing; after it only the wipe writes, to bytes 72..136.
\* (from_seed and new_from_getrandom make three permutations in one step;
\* their states are determined in C16 and C17.)
C12_CapacityUntouched ==
  [][pc # "none" =>
       LET evs == NewEvents
           perms == Count(evs, "apply_f")
           mid == IF perms = 0 THEN state ELSE perm_in'
           base == IF perms = 0 THEN state ELSE keccak_f1600(perm_in')
           wiped == \E k \in 1..Len(evs) : evs[k].ev = "make_forward_secure"
           absorbed == \E k \in 1..Len(evs) :
                         evs[k].ev \in {"absorb_block", "absorb_partial_block_padded"}
       IN /\ perms <= 1
          /\ CapacityArea(mid) = CapacityArea(state)
          /\ ZeroizedCapacityArea(mid) = ZeroizedCapacityArea(state)
          /\ ~absorbed => mid = state
          /\ \A k \in 1..Len(evs) :
               IsOutput(evs[k]) =>
                 /\ Len(evs[k].data) <=
                      IF evs[k].ev = "initial_output" THEN RATE_BYTES
                      ELSE RATE_BYTES + CAPACITY_BYTES
                 /\ evs[k].data = SubSeq(state, 1, Len(evs[k].data))
          /\ CapacityArea(state') = CapacityArea(base)
          /\ RateArea(state') = RateArea(base)
          /\ ~wiped => state' = base
  ]_vars

\* A 209-byte request has returned on a driver whose capacity area the
\* permutations of the request have changed.
C12_Witness ==
  /\ Returned("fill_random_bytes")
  /\ Len(dest) = 209
  /\ Count(log, "intermediate_output") = 2
  /\ CapacityArea(state) # CapacityArea(pre)

XorInto(st, block) ==
  [i \in 1..Len(st) |-> IF i <= Len(block) THEN BitXor(st[i], block[i]) ELSE st[i]] \o <<>>

\* C15: when new_unseeded has returned, the driver was made from the all-zero
\* 200-byte state, and what was done to it is: a full-block absorb of bytes
\* 0..72 of the 80-byte diversifier, a permutation, a padded absorb of the 8
\* bytes left, a permutation; the state is the one these four steps give,
\* the same at every call.
C15_NewUnseeded ==
  Returned("new_unseeded") =>
    /\ Len(DIVERSIFIER) = 80
    /\ pre = Zeros(200)
    /\ log = << Ev("absorb_block", SubSeq(DIVERSIFIER, 1, 72)), Ev("apply_f", <<>>),
                Ev("absorb_partial_block_padded", SubSeq(DIVERSIFIER, 73, 80)),
                Ev("apply_f", <<>>) >>
    /\ LET s1 == keccak_f1600(XorInto(pre, SubSeq(DIVERSIFIER, 1, 72)))
           s2 == XorInto(s1, SubSeq(DIVERSIFIER, 73, 80) \o <<128>> \o Zeros(62) \o <<1>>)
       IN state = keccak_f1600(s2)
    /\ state = new_unseeded.state

\* new_unseeded has returned a driver whose state is not the all-zero one.
C15_Witness ==
  /\ Returned("new_unseeded")
  /\ calls = 0
  /\ Count(log, "apply_f") = 2
  /\ state # new

\* The state a padded absorb of a block shorter than 71 bytes leaves.
PaddedAbsorb(st, block) ==
  keccak_f1600(XorInto(st, block \o <<128>> \o Zeros(RATE_BYTES - Len(block) - 2) \o <<1>>))

\* C16: when new_from_getrandom is left, a driver was made as new_unseeded
\* makes it and the OS RNG was asked once.  If it failed, its error is what
\* the caller gets, no driver is returned, and nothing was absorbed after the
\* diversifier.  If it succeeded, the driver returned holds the state of
\* new_unseeded after one padded absorb of the 64 bytes, one permutation.
C16_NewFromGetrandom ==
  op = "new_from_getrandom" =>
    /\ pc \in {"idle", "failed"}
    /\ SubSeq(log, 1, 4) = new_unseeded.log
    /\ AllZero(buffer)
    /\ fret[1] = "err" =>
         /\ pc = "failed"
         /\ result = fret
         /\ ~seeded
         /\ Len(log) = 4
         /\ state = new_unseeded.state
    /\ fret[1] # "err" =>
         /\ pc = "idle"
         /\ result = <<"ok">>
         /\ Len(arg) = 64
         /\ log = new_unseeded.log \o
                    << Ev("absorb_partial_block_padded", arg), Ev("apply_f", <<>>) >>
         /\ state = PaddedAbsorb(new_unseeded.state, arg)

\* The OS RNG has failed after writing a part of the buffer, and
\* new_from_getrandom has returned its error.
C16_Witness ==
  /\ op = "new_from_getrandom"
  /\ pc = "failed"
  /\ result = <<"err", "E2">>
  /\ ~AllZero(arg)

\* C17: when from_seed has returned, the state is that of new_unseeded after
\* one padded absorb of the 64 seed bytes (0x80 at rate byte 64, 0x01 at rate
\* byte 71, one permutation); seed with the same 64 bytes on a new_unseeded
\* driver gives the same state, and so does a seed_with_64 whose producer
\* succeeds having written these bytes.
C17_FromSeed ==
  Returned("from_seed") =>
    /\ Len(arg) = 64
    /\ log = new_unseeded.log \o
               << Ev("absorb_partial_block_padded", arg), Ev("apply_f", <<>>) >>
    /\ perm_in = XorInto(new_unseeded.state, arg \o <<128, 0, 0, 0, 0, 0, 0, 1>>)
    /\ state = keccak_f1600(perm_in)
    /\ state = seed(new_unseeded, arg).state
    /\ state = seed_with_64(new_unseeded, [ret |-> <<"ok">>, bytes |-> arg]).self.state

\* from_seed has returned a driver for the seed of bytes 203, 206, ...
C17_Witness ==
  /\ Returned("from_seed")
  /\ arg = Pattern(64, 200)
  /\ seeded
  /\ state # new_unseeded.state

\* C18: when next_u64 or next_u32 has returned, what was done is what an
\* 8-byte fill_random_bytes does: an initial-output of state bytes 0..8, one
\* permutation, one wipe; bytes 72..136 of the state are zero.  The u64 is
\* these 8 bytes in the byte order of the host; the u32 is the 32 least
\* significant bits of the u64 a next_u64 on the same state returns, and the
\* state it leaves is the state that next_u64 leaves.
C18_NextU64 ==
  (Returned("next_u64") \/ Returned("next_u32")) =>
    LET e == result[2]
        v == result[3]
        at_entry == [state |-> pre, log |-> <<>>, panic |-> FALSE, perm_in |-> pre]
        f == fill_random_bytes(at_entry, Zeros(8))
        u == next_u64(at_entry, e)
    IN /\ log = << Ev("initial_output", SubSeq(pre, 1, 8)), Ev("apply_f", <<>>),
                   Ev("make_forward_secure", <<>>) >>
       /\ log = f.self.log
       /\ state = f.self.state
       /\ dest = f.dest
       /\ AllZero(ZeroizedCapacityArea(state))
       /\ RateArea(state) = RateArea(keccak_f1600(pre))
       /\ CapacityArea(state) = CapacityArea(keccak_f1600(pre))
       /\ \A i \in 1..8 : u.value[i] = IF e = "little" THEN pre[i] ELSE pre[9 - i]
       /\ op = "next_u64" => v = u.value
       /\ op = "next_u32" =>
            /\ Len(v) = 4
            /\ \A i \in 1..4 : v[i] = u.value[i]
            /\ state = u.self.state

\* next_u32 has returned on a big-endian host, on a seeded driver whose
\* first 8 rate bytes do not read the same in both directions.
C18_Witness ==
  /\ Returned("next_u32")
  /\ seeded
  /\ result[2] = "big"
  /\ result[3] = <<pre[8], pre[7], pre[6], pre[5]>>
  /\ result[3] # SubSeq(pre, 1, 4)

\* C19: when a call has made its one padded absorb of a block of len < 72
\* bytes (seed with such an input, a successful seed_with_64), the state the
\* permutation was given is the state at entry with block byte i XORed into
\* byte i for i < len, 0x80 into byte len and 0x01 into byte 71 (0x81 into
\* byte 71 when len = 71), every other byte as it was; the permutation was
\* applied once, to that state.
C19_PaddedAbsorb ==
  ((Returned("seed") /\ Len(arg) < RATE_BYTES) \/ (Returned("seed_with_64") /\ result = <<"ok">>)) =>
    LET len == Len(arg)
        mask == [i \in 1..200 |->
                   IF i <= len THEN arg[i]
                   ELSE IF i = len + 1 /\ i = 72 THEN 129
                   ELSE IF i = len + 1 THEN 128
                   ELSE IF i = 72 THEN 1
                   ELSE 0]
    IN /\ log = << Ev("absorb_partial_block_padded", arg), Ev("apply_f", <<>>) >>
       /\ \A i \in 1..200 : perm_in[i] = BitXor(pre[i], mask[i])
       /\ SubSeq(perm_in, RATE_BYTES + 1, 200) = SubSeq(pre, RATE_BYTES + 1, 200)
       /\ state = keccak_f1600(perm_in)

\* seed has returned from a 71-byte input on a state whose rate byte 71 had
\* bits of both padding bytes set: the byte was XORed with 0x81.
C19_Witness ==
  /\ Returned("seed")
  /\ Len(arg) = 71
  /\ perm_in[72] = BitXor(pre[72], 129)
  /\ BitXor(pre[72], 129) < pre[72]

\* C20: the step of fill_random_bytes that is the make-forward-secure action
\* leaves state bytes 72..136 zero and bytes 0..72 and 136..200 as they were,
\* and applies no permutation.
C20_MakeForwardSecure ==
  [][pc = "fill_end" =>
       /\ AllZero(ZeroizedCapacityArea(state'))
       /\ RateArea(state') = RateArea(state)
       /\ CapacityArea(state') = CapacityArea(state)
       /\ Len(state') = 200
       /\ log' = Append(log, Ev("make_forward_secure", <<>>))
       /\ perm_in' = perm_in
  ]_vars

\* fill_random_bytes has returned, and its wipe changed the state: bytes
\* 72..136 were not all zero after the last permutation.
C20_Witness ==
  /\ Returned("fill_random_bytes")
  /\ log[Len(log)].ev = "make_forward_secure"
  /\ ~AllZero(ZeroizedCapacityArea(keccak_f1600(perm_in)))
  /\ ~AllZero(RateArea(state))
  /\ RateArea(state) = RateArea(keccak_f1600(perm_in))

\* A call of fill_random_bytes is in progress or has returned.
InFill == op = "fill_random_bytes" /\ pc \in {"fill_loop", "fill_end", "idle"}

\* The destination bytes written before event k of a record.
WrittenBefore(lg, k) == Len(OutputData(SubSeq(lg, 1, k - 1)))

\* C21 as stated: every intermediate-output of fill_random_bytes was invoked
\* with more than 72 destination bytes still unwritten.
C21_IntermediateOnlyAbove72 ==
  InFill =>
    \A k \in 1..Len(log) :
      log[k].ev = "intermediate_output" => Len(dest) - WrittenBefore(log, k) > RATE_BYTES

\* C21, amended: the initial-output writes min(L, 72) bytes; every
\* intermediate-output is invoked with at least one destination byte still
\* unwritten (the first one whenever L > 72) and writes min(remainder, 136)
\* bytes; the loop goes on after a remainder above 136 and ends after a
\* remainder of at most 136, with every destination byte written.
C21_IntermediateWhileUnwritten ==
  InFill =>
    LET L == Len(dest)
    IN /\ log[1].ev = "initial_output"
       /\ Len(log[1].data) = Min(L, RATE_BYTES)
       /\ (L > RATE_BYTES /\ pc # "fill_loop") =>
            \E k \in 1..Len(log) : log[k].ev = "intermediate_output"
       /\ \A k \in 1..Len(log) :
            log[k].ev = "intermediate_output" =>
              LET rem == L - WrittenBefore(log, k)
                  later == \E j \in (k + 1)..Len(log) : log[j].ev = "intermediate_output"
              IN /\ rem > 0
                 /\ Len(log[k].data) = Min(rem, RATE_BYTES + CAPACITY_BYTES)
                 /\ rem <= RATE_BYTES + CAPACITY_BYTES => (~later /\ pc # "fill_loop")
                 /\ rem > RATE_BYTES + CAPACITY_BYTES => (later \/ pc = "fill_loop")
       /\ pc = "fill_loop" => L - Len(OutputData(log)) > 0
       /\ pc # "fill_loop" => Len(OutputData(log)) = L

\* A 73-byte request has returned: its intermediate-output was invoked with
\* one byte unwritten.
C21_Witness ==
  /\ Returned("fill_random_bytes")
  /\ Len(dest) = 73
  /\ log[3].ev = "intermediate_output"
  /\ Len(log[3].data) = 1

\* C22: a call of the padded absorb with a block of 72 bytes or more panics,
\* and when it has panicked no byte of the state has changed and nothing was
\* done to the driver, no permutation in particular; with a shorter block it
\* does not panic.
C22_PanicBeforeWrite ==
  op = "absorb_partial_block_padded" =>
    /\ (pc = "panicked") = (Len(arg) >= RATE_BYTES)
    /\ pc = "panicked" =>
         /\ state = pre
         /\ log = <<>>
         /\ result = <<"panic">>

\* The padded absorb has panicked on a block of exactly 72 non-zero bytes,
\* called on a driver whose state is not the all-zero one.
C22_Witness ==
  /\ op = "absorb_partial_block_padded"
  /\ pc = "panicked"
  /\ Len(arg) = RATE_BYTES
  /\ ~AllZero(arg)
  /\ ~AllZero(pre)

\* C23: no call of a public operation ends in a panic.  Every padded absorb
\* was handed fewer than 72 bytes (64 by seed_with_64, new_from_getrandom
\* and from_seed, 8 by seed_from_u64, the tail n mod 72 by seed) and every
\* full-block absorb exactly 72; in fill_random_bytes the loop is entered
\* with its cursor inside the destination, and no output action copies more
\* than the view it reads holds or than the destination has left.
C23_NoAbort ==
  /\ pc # "panicked"
  /\ \A k \in 1..Len(log) :
       /\ log[k].ev = "absorb_partial_block_padded" => Len(log[k].data) < RATE_BYTES
       /\ log[k].ev = "absorb_block" => Len(log[k].data) = RATE_BYTES
       /\ log[k].ev = "initial_output" => Len(log[k].data) <= RATE_BYTES
       /\ log[k].ev = "intermediate_output" =>
            Len(log[k].data) <= RATE_BYTES + CAPACITY_BYTES
  /\ Returned("seed") =>
       log[Len(log) - 1] =
         Ev("absorb_partial_block_padded",
            SubSeq(arg, Len(arg) - (Len(arg) % RATE_BYTES) + 1, Len(arg)))
  /\ (pc = "idle" /\ op \in {"from_seed", "new_from_getrandom", "seed_from_u64"}) =>
       /\ log[5] = Ev("absorb_partial_block_padded", arg)
       /\ Len(arg) = IF op = "seed_from_u64" THEN 8 ELSE 64
  /\ (Returned("seed_with_64") /\ result = <<"ok">>) =>
       (log[1] = Ev("absorb_partial_block_padded", arg) /\ Len(arg) = 64)
  /\ InFill =>
       /\ Len(OutputData(log)) <= Len(dest)
       /\ pc = "fill_loop" => (RATE_BYTES <= cur /\ cur < Len(dest))

\* seed has returned from an input of exactly one block: the padded absorb
\* was handed the empty tail.
C23_Witness ==
  /\ Returned("seed")
  /\ arg = Pattern(RATE_BYTES, 200)
  /\ log[3] = Ev("absorb_partial_block_padded", <<>>)
  /\ result = <<"ok">>

\* The positions of the output actions in a record.
OutputAt(lg) == {k \in 1..Len(lg) : IsOutput(lg[k])}

\* C24: when fill_random_bytes (or next_u64, next_u32, which call it) has
\* returned, every chunk copied out was followed at once by a permutation;
\* with S the last state bytes were copied from, the state held is S after
\* the permutation and the wipe, and it is none of the states bytes were
\* copied from during the call.
C24_StoredStateUnread ==
  (pc = "idle" /\ op \in {"fill_random_bytes", "next_u64", "next_u32"}) =>
    LET n == Cardinality(OutputAt(log))
        S == StatesAfter(pre, n)
        last == CHOOSE k \in OutputAt(log) : \A j \in OutputAt(log) : j <= k
        image == keccak_f1600(perm_in)
    IN /\ n >= 1
       /\ \A k \in OutputAt(log) : k < Len(log) /\ log[k + 1].ev = "apply_f"
       /\ Count(log, "apply_f") = n
       /\ perm_in = S[n]
       /\ log[last].data = SubSeq(perm_in, 1, Len(log[last].data))
       /\ \A i \in 1..200 :
            state[i] = IF RATE_BYTES < i /\ i <= RATE_BYTES + CAPACITY_BYTES
                       THEN 0 ELSE image[i]
       /\ \A k \in 1..n : state # S[k]

\* A 208-byte request has returned: bytes were copied from the state at
\* entry and from its permutation image, and the state held is neither.
C24_Witness ==
  /\ Returned("fill_random_bytes")
  /\ Len(dest) = 208
  /\ perm_in = keccak_f1600(pre)
  /\ state # perm_in
  /\ state # pre

\* Lengths of the second request of a split request.
SplitLens == {0, 1, 32, 72}

\* C25: when a 72-byte request has returned, then for m <= 72 the 72 bytes
\* it wrote followed by the m bytes a next request writes are the 72 + m
\* bytes a single request writes from the state the first one was made on
\* (the wipe in between leaves the rate area as the permutation left it),
\* and the two runs end in different states.
C25_SplitAtRateBoundary ==
  (Returned("fill_random_bytes") /\ Len(dest) = RATE_BYTES) =>
    /\ RateArea(state) = RateArea(keccak_f1600(pre))
    /\ \A m \in SplitLens :
         LET second == fill_random_bytes([Self EXCEPT !.log = <<>>], Zeros(m))
             single == fill_random_bytes(
                         [state |-> pre, log |-> <<>>, panic |-> FALSE, perm_in |-> pre],
                         Zeros(RATE_BYTES + m))
         IN /\ dest \o second.dest = single.dest
            /\ second.self.state # single.self.state

\* A 72-byte request has returned on a seeded driver, and the wipe it ended
\* with has changed the state the next request starts from.
C25_Witness ==
  /\ Returned("fill_random_bytes")
  /\ Len(dest) = RATE_BYTES
  /\ seeded
  /\ state # keccak_f1600(pre)
  /\ ~AllZero(SubSeq(state, RATE_BYTES - LANE_BYTES + 1, RATE_BYTES))

\* C26: a call of seed (or of new_unseeded, which runs it) and a call of
\* fill_random_bytes that are in progress return.  An iteration of the loop
\* of fill_random_bytes that is not the last moves the start of the
\* remaining destination on by 136 bytes, staying inside the destination,
\* and the loop is left as soon as the remainder is at most 136 bytes; an
\* iteration of the loop of seed consumes 72 bytes of the input.
C26_Terminates ==
  /\ [][/\ (pc = "fill_loop" /\ pc' = "fill_loop") =>
             /\ Len(dest) - cur > RATE_BYTES + CAPACITY_BYTES
             /\ cur' = cur + RATE_BYTES + CAPACITY_BYTES
             /\ cur' < Len(dest')
             /\ Len(dest') = Len(dest)
        /\ (pc = "fill_loop" /\ pc' = "fill_end") =>
             Len(dest) - cur <= RATE_BYTES + CAPACITY_BYTES
        /\ (pc = "seed" /\ pc' = "seed") =>
             /\ cur' = cur + RATE_BYTES
             /\ cur' <= Len(arg)
             /\ arg' = arg
        /\ (pc = "seed" /\ pc' = "idle") => Len(arg) - cur < RATE_BYTES
     ]_vars
  /\ (pc \in {"seed", "fill_loop", "fill_end"}) ~> (pc = "idle")

\* A 345-byte request is in its loop with two iterations to go.
C26_Witness ==
  /\ pc = "fill_loop"
  /\ Len(dest) = 345
  /\ cur = RATE_BYTES
  /\ Count(log, "intermediate_output") = 0

====
